---------------------------- MODULE Spec2Model ----------------------------
(***************************************************************************)
(* A model of src/blockchain.py: the Blockchain class (ledger, proof of    *)
(* work, chain validation, longest-chain consensus) and the Flask request  *)
(* handlers that drive it.                                                 *)
(*                                                                         *)
(* Python values are represented as follows.                               *)
(*  - A block dict is a record with the five keys of the dict.  The extra  *)
(*    field txobj is the identity of the Python list object stored under   *)
(*    'transactions' (0 for a list built by response.json(), which nothing *)
(*    else references); it is not part of the dict and is never hashed.    *)
(*  - previous_hash holds either the genesis sentinel, the integer 1, or a *)
(*    hex digest string.  Both are written as strings here: the integer 1  *)
(*    as "1", a digest as "sha256<...>" (never equal to "1").  None and    *)
(*    the other falsy values are written "".                               *)
(*  - hashlib.sha256 over a block's canonical JSON text is modelled as an  *)
(*    ideal (collision free) digest of that text.  The digest of the short *)
(*    proof-of-work guesses is the real one: Sha256ZeroPrefix lists the    *)
(*    guesses whose SHA-256 hex digest really starts with '00'.            *)
(***************************************************************************)
EXTENDS Integers, Sequences, FiniteSets, TLC

(***************************************************************************)
(* Bounds of the model.                                                    *)
(***************************************************************************)
\* blocks the node may mint after the genesis block
MaxMints == 2
\* transactions an API client may have waiting in the pending buffer
MaxPending == 2
\* time() returns one of 1..MaxTime
MaxTime == 1
\* the longest chain a peer builds
MaxPeerLen == 3

\* request-handling threads of the server
Threads == {"t1", "t2"}

VARIABLES
    chain,                  \* self.chain
    current_transactions,   \* contents of the list bound to self.current_transactions
    cur_list,               \* identity of that list object
    lists_made,             \* list objects created so far by the ledger
    nodes,                  \* self.nodes
    pc,                     \* where each thread is in its request
    frame,                  \* each thread's local variables
    mode,                   \* how the server schedules requests
    submitted,              \* history: transactions passed to new_transaction
                            \* since the last block was created
    minted,                 \* history: what submitted was when the last block
                            \* was created
    promised,               \* history: <<list object, value returned,
                            \* transaction>> of the new_transaction calls,
                            \* for the list objects still referenced
    vc_chain,               \* the argument of a call of valid_chain
    vc_result,              \* and what the call gave ("" before the call)
    pw_last_proof,          \* the argument last_proof of a call of
                            \* proof_of_work and of a call of valid_proof
    pw_proof,               \* the argument proof of the call of valid_proof
    pw_result,              \* what proof_of_work gave (-1 before the call)
    vp_result               \* what valid_proof gave ("" before the call)

vars == <<chain, current_transactions, cur_list, lists_made, nodes, pc, frame,
          mode, submitted, minted, promised, vc_chain, vc_result,
          pw_last_proof, pw_proof, pw_result, vp_result>>

(***************************************************************************)
(* Inputs.                                                                 *)
(***************************************************************************)
Times == 1..MaxTime

\* node_identifier (line 181): the uuid of this node
node_identifier == "node"

\* bodies POSTed to /transactions/new: the keys present and their values
Required == {"sender", "recipient", "amount"}

\* a faulty variant: any(...) in place of all(...)
HasAnyRequired(present) == Required \cap present # {}

\* all(param in values for param in required) (line 224)
HasRequired(present) == Required \subseteq present

\* the full body, and the bodies that lack one of the keys
TxBodies ==
    { [present |-> Required \ missing,
       tx |-> [sender |-> "a", recipient |-> "b", amount |-> 5]] :
          missing \in {{}, {"sender"}, {"recipient"}, {"amount"}} }

\* lists POSTed to /nodes/register under 'nodes' hold addresses among these
Addresses == {"http://p1:5000", "http://p1:5000/chain", "http://p2:5000"}

(***************************************************************************)
(* hash (lines 159-170): sha256 of json.dumps(block, sort_keys=True).      *)
(***************************************************************************)
GenesisPreviousHash == "1"
NoneHash == ""

Quote(s) == "\"" \o s \o "\""

\* json.dumps of one transaction dict, keys sorted
TxJson(tx) ==
    "{\"amount\": " \o ToString(tx.amount)
        \o ", \"recipient\": " \o Quote(tx.recipient)
        \o ", \"sender\": " \o Quote(tx.sender) \o "}"

RECURSIVE TxListJson(_)
TxListJson(txs) ==
    IF Len(txs) = 0 THEN ""
    ELSE IF Len(txs) = 1 THEN TxJson(txs[1])
    ELSE TxJson(txs[1]) \o ", " \o TxListJson(Tail(txs))

\* json.dumps of the previous_hash value: the integer 1 or a string
HashJson(h) == IF h = GenesisPreviousHash THEN "1" ELSE Quote(h)

\* json.dumps(block, sort_keys=True): the keys in lexicographic order
JsonDumps(block) ==
    "{\"index\": " \o ToString(block.index)
        \o ", \"previous_hash\": " \o HashJson(block.previous_hash)
        \o ", \"proof\": " \o ToString(block.proof)
        \o ", \"timestamp\": " \o ToString(block.timestamp)
        \o ", \"transactions\": [" \o TxListJson(block.transactions) \o "]}"

Hash(block) == "sha256<" \o JsonDumps(block) \o ">"

(***************************************************************************)
(* valid_proof (lines 153-157) and proof_of_work (lines 137-151).          *)
(***************************************************************************)
\* The proofs the model lets a block carry: the proofs mined one after the
\* other from the genesis proof 100, and the proofs of chains of up to five
\* blocks in which any block carries the proof mined from its predecessor's
\* or that proof plus one (a forged proof).
ProofDomain ==
  {
    18, 19, 26, 27, 48, 49, 50, 57, 58, 71, 72, 100,
    101, 102, 130, 131, 140, 141, 175, 226, 227, 289, 290, 329,
    346, 347, 509, 510, 573, 574, 679, 680, 696, 697, 940, 941
  }

\* Every string str(a) + str(b), a in ProofDomain, b in 0..1045, whose SHA-256
\* hex digest starts with '00' (computed with hashlib.sha256).
Sha256ZeroPrefix ==
  {
    "2650", "2726", "5848", "7198", "10164", "14034", "17527", "18130",
    "18390", "18462", "18636", "18913", "18926", "19679", "19771", "22718",
    "26272", "26599", "27174", "27532", "34657", "48128", "48142", "48165",
    "48559", "48678", "49293", "49365", "49755", "49977", "50329", "50342",
    "50436", "50450", "50858", "57289", "57364", "57402", "57514", "57584",
    "57861", "57971", "58170", "58538", "58663", "58672", "58715", "58885",
    "69671", "71149", "71449", "71608", "71656", "71884", "71983", "100226",
    "100319", "100467", "101322", "101581", "101619", "101979", "102209", "102622",
    "130140", "130479", "130917", "131940", "140161", "140579", "140808", "140833",
    "141270", "141966", "141983", "175684", "226346", "226360", "226653", "226734",
    "226779", "227150", "261042", "271023", "289175", "289296", "289508", "289718",
    "289937", "290527", "329555", "346238", "346393", "346531", "346634", "346863",
    "347696", "347904", "509113", "509231", "509278", "509790", "510252", "510301",
    "510367", "510472", "510830", "510935", "573437", "573765", "574414", "574468",
    "574583", "574867", "574907", "679509", "679713", "679766", "680573", "680592",
    "680629", "680891", "696266", "696532", "697101", "697305", "697694", "711035",
    "721044", "940198", "940714", "940793", "940856", "941533", "941912", "1021006",
    "1311029", "1751007", "2901016"
  }

\* f'{last_proof}{proof}'
Guess(last_proof, proof) == ToString(last_proof) \o ToString(proof)

ValidProof(last_proof, proof) == Guess(last_proof, proof) \in Sha256ZeroPrefix

\* The while loop of proof_of_work from the candidate proof on, cut after 32
\* passes: it yields the first valid candidate, or proof + 32 if none of the
\* 32 is valid.
RECURSIVE ProofLoop(_, _, _)
ProofLoop(last_proof, proof, passes) ==
    IF passes > 0 /\ ValidProof(last_proof, proof) = FALSE
    THEN ProofLoop(last_proof, proof + 1, passes - 1)
    ELSE proof

\* The whole loop, as one run of 32 passes after the other (the evaluator's
\* stack does not hold one frame per pass of a loop of hundreds of passes).
RECURSIVE ProofSearch(_, _)
ProofSearch(last_proof, proof) ==
    LET p == ProofLoop(last_proof, proof, 32) IN
    IF ValidProof(last_proof, p) = FALSE
    THEN ProofSearch(last_proof, p)
    ELSE p

\* a faulty variant: the counter is stepped once more after the test passed
ProofOfWorkOnePast(last_proof) == ProofSearch(last_proof, 0) + 1

\* proof = 0; while self.valid_proof(last_proof, proof) is False: proof += 1
ProofOfWork(last_proof) == ProofSearch(last_proof, 0)

(***************************************************************************)
(* valid_chain (lines 37-60).  The result is what the call returns, or the *)
(* exception it raises.                                                    *)
(***************************************************************************)
RECURSIVE ValidChainLoop(_, _, _)
ValidChainLoop(c, last_block, current_index) ==
    IF current_index < Len(c)
    THEN LET block == c[current_index + 1] IN      \* chain[current_index]
         IF block.previous_hash # Hash(last_block) THEN FALSE
         ELSE IF ~ValidProof(last_block.proof, block.proof) THEN FALSE
         ELSE ValidChainLoop(c, block, current_index + 1)
    ELSE TRUE

ValidChain(c) ==
    IF Len(c) = 0
    THEN "IndexError"                               \* chain[0] of an empty list
    ELSE IF ValidChainLoop(c, c[1], 1) THEN "True" ELSE "False"

(***************************************************************************)
(* Blocks and the block-building expressions of new_block (lines 105-111). *)
(***************************************************************************)
NoTx == [sender |-> "", recipient |-> "", amount |-> 0]

NoBlock ==
    [index |-> 0, timestamp |-> 0, transactions |-> <<>>, txobj |-> 0,
     proof |-> 0, previous_hash |-> NoneHash]

\* 'index': len(self.chain) + 1
BlockIndex(c) == Len(c) + 1

\* a faulty variant: hashes the first block, self.chain[0]
BlockPreviousHashOfFirst(previous_hash, c) ==
    IF previous_hash # NoneHash THEN previous_hash ELSE Hash(c[1])

\* 'previous_hash': previous_hash or self.hash(self.chain[-1])
BlockPreviousHash(previous_hash, c) ==
    IF previous_hash # NoneHash THEN previous_hash ELSE Hash(c[Len(c)])

\* a faulty variant: the block takes a copy of the pending list,
\* list(self.current_transactions), an object of its own
NewBlockDictCopy(c, txs, obj, ts, proof, previous_hash) ==
    [index |-> BlockIndex(c), timestamp |-> ts, transactions |-> txs,
     txobj |-> 0, proof |-> proof,
     previous_hash |-> BlockPreviousHash(previous_hash, c)]

\* a faulty variant: the dict is built after the reset of line 114, around
\* an empty list
NewBlockDictAfterReset(c, txs, obj, ts, proof, previous_hash) ==
    [index |-> BlockIndex(c), timestamp |-> ts, transactions |-> <<>>,
     txobj |-> 0, proof |-> proof,
     previous_hash |-> BlockPreviousHash(previous_hash, c)]

\* the dict built by new_block; txs is the content of the list object obj
NewBlockDict(c, txs, obj, ts, proof, previous_hash) ==
    [index |-> BlockIndex(c), timestamp |-> ts, transactions |-> txs,
     txobj |-> obj, proof |-> proof,
     previous_hash |-> BlockPreviousHash(previous_hash, c)]

\* the reward transaction of mine (lines 197-201)
RewardTx == [sender |-> "0", recipient |-> node_identifier, amount |-> 1]

\* last_block (lines 172-174)
LastBlock(c) == c[Len(c)]

\* what new_transaction returns (line 135)
NextIndex(c) == LastBlock(c).index + 1

\* a faulty variant: reads the proof of the first block
MineLastProofOfFirst(c) == c[1].proof

\* last_proof of mine (lines 191-192)
MineLastProof(c) == LastBlock(c).proof

\* a faulty variant: list.insert(0, tx)
ListInsertFirst(txs, holder, obj, tx) == IF holder = obj THEN <<tx>> \o txs ELSE txs

\* a faulty variant: the list is overwritten, list[:] = [tx]
ListOverwrite(txs, holder, obj, tx) == IF holder = obj THEN <<tx>> ELSE txs

\* list.append(tx) on the list object obj, seen from a holder of the list
\* object holder with content txs
ListAppend(txs, holder, obj, tx) == IF holder = obj THEN Append(txs, tx) ELSE txs

BlockListAppend(b, obj, tx) ==
    [b EXCEPT !.transactions = ListAppend(@, b.txobj, obj, tx)]

\* self.current_transactions = [] leaves the list to whoever holds it
FreshList(made) == made + 1

\* urlparse(address).netloc (lines 34-35): the text between '//' and the
\* next '/'
Netloc(address) ==
    CASE address = "http://p1:5000" -> "p1:5000"
      [] address = "http://p1:5000/chain" -> "p1:5000"
      [] address = "http://p2:5000" -> "p2:5000"

(***************************************************************************)
(* Chains that did not grow in this ledger: what peers answer to           *)
(* GET /chain (lines 78-82), and arguments for valid_chain.                *)
(***************************************************************************)
PeerTx == [sender |-> "0", recipient |-> "peer", amount |-> 1]

\* the block /mine appends to c on a node running this program
HonestBlock(c) ==
    NewBlockDict(c, <<PeerTx>>, 0, 0, ProofOfWork(MineLastProof(c)), NoneHash)

\* that block, and the same with any of previous_hash, proof and index forged
BlockVariants(c) ==
    LET b == HonestBlock(c) IN
    { [b EXCEPT !.previous_hash = h, !.proof = p, !.index = i] :
        h \in {b.previous_hash, "sha256<forged>"},
        p \in {b.proof, b.proof + 1},
        i \in {b.index, b.index + 5} }

\* the chain of a fresh node: Blockchain()
FreshChain == << NewBlockDict(<<>>, <<>>, 0, 0, 100, GenesisPreviousHash) >>

\* the chain of a node after n - 1 calls of /mine
RECURSIVE HonestChain(_)
HonestChain(n) ==
    IF n = 1 THEN FreshChain
    ELSE LET c == HonestChain(n - 1) IN Append(c, HonestBlock(c))

\* every chain of n blocks grown from FreshChain by honest or forged blocks
RECURSIVE ChainsOfLen(_)
ChainsOfLen(n) ==
    IF n = 1 THEN {FreshChain}
    ELSE UNION {{Append(c, b) : b \in BlockVariants(c)} : c \in ChainsOfLen(n - 1)}

CandidateChains == {<<>>} \cup UNION {ChainsOfLen(n) : n \in 1..MaxPeerLen}

\* peers answer with no chain, an honest chain, or one whose last block is forged
PeerChains ==
    {<<>>, FreshChain}
    \cup UNION {{Append(HonestChain(n - 1), b) : b \in BlockVariants(HonestChain(n - 1))} :
                   n \in 2..MaxPeerLen}

\* the 'length' a peer reports: too small, true, or too large
PeerLengths(c) == {0, Len(c), MaxPeerLen + 1}

\* kind "ok": status 200 and a body with 'length' and 'chain';
\* kind "status": another status code; kind "malformed": status 200 and a
\* body that is not JSON; kind "unreachable": requests.get raises
Responses ==
    {[kind |-> k, length |-> 0, chain |-> <<>>] :
        k \in {"status", "malformed", "unreachable"}}
    \cup UNION {{[kind |-> "ok", length |-> n, chain |-> c] : n \in PeerLengths(c)} :
                   c \in PeerChains}

(***************************************************************************)
(* Threads.                                                                *)
(***************************************************************************)
\* op: the request; present: the keys of the body of /transactions/new; ret: what the Blockchain method returned; raised: the
\* exception that leaves the handler; status: the HTTP status of the answer;
\* offered: whether a peer examined so far by resolve_conflicts answered with
\* a chain longer than the local one and valid; seen: those answers, as
\* <<length, chain>>, in the order resolve_conflicts examined them
NoFrame ==
    [op |-> "none", present |-> {}, tx |-> NoTx, lst |-> 0, proof |-> 0,
     block |-> NoBlock, todo |-> {}, seen |-> <<>>, max_length |-> 0, new_chain |-> <<>>,
     offered |-> FALSE, ret |-> "", raised |-> "", status |-> 0]

Idle(t) == pc[t] = "idle"

\* whether thread t may take up a request op: "serial" serves every request
\* on the one thread t1; "overlap" serves a /transactions/new request while a
\* /mine request is in flight, or the other way round, and every other
\* request alone; "miners" serves requests on both threads at once; "direct"
\* is a single-threaded caller of the methods of Blockchain
MayBegin(t, op) ==
    /\ Idle(t)
    /\ mode # "pure"
    /\ mode \in {"serial", "direct"} => t = "t1"
    /\ mode = "overlap" =>
          \A u \in Threads \ {t} : Idle(u) \/ {op, frame[u].op} = {"mine", "tx"}

\* the list object obj is referenced: it is the pending list cl, or the
\* transactions of a block of the chain ch, or held by a local of a thread
Live(obj, cl, ch, fr) ==
    \/ obj = cl
    \/ \E k \in DOMAIN ch : ch[k].txobj = obj
    \/ \E t \in Threads : fr[t].lst = obj \/ fr[t].block.txobj = obj

\* the promises about list objects still referenced
Kept(promises, cl, ch, fr) == {p \in promises : Live(p[1], cl, ch, fr)}

Goto(t, label) == pc' = [pc EXCEPT ![t] = label]

ledger == <<chain, current_transactions, cur_list, lists_made, nodes>>
history == <<submitted, minted, promised>>
probe == <<vc_chain, vc_result, pw_last_proof, pw_proof, pw_result, vp_result>>

(***************************************************************************)
(* Blockchain() (lines 19-25) and the module-level setup (lines 177-184).  *)
(***************************************************************************)
Construct ==
    /\ \E ts \in Times :
          chain = << NewBlockDict(<<>>, <<>>, 1, ts, 100, GenesisPreviousHash) >>
    /\ current_transactions = <<>>
    /\ cur_list = 2
    /\ lists_made = 2
    /\ nodes = {}
    /\ pc = [t \in Threads |-> "idle"]
    /\ frame = [t \in Threads |-> NoFrame]
    /\ submitted = <<>>
    /\ minted = <<>>
    /\ promised = {}

(***************************************************************************)
(* POST /transactions/new (lines 217-236) and new_transaction (119-135).   *)
(***************************************************************************)
\* a required key is absent: 'Missing values', 400
TxRejected(t) ==
    /\ MayBegin(t, "tx")
    /\ \E body \in TxBodies :
          /\ ~HasRequired(body.present)
          /\ frame' = [frame EXCEPT ![t] =
                          [NoFrame EXCEPT !.op = "tx", !.present = body.present,
                                          !.status = 400]]
    /\ Goto(t, "respond")
    /\ UNCHANGED <<ledger, mode, history, probe>>

TxAccepted(t) ==
    /\ MayBegin(t, "tx")
    /\ Len(current_transactions) < MaxPending
    /\ \E body \in TxBodies :
          /\ HasRequired(body.present)
          /\ frame' = [frame EXCEPT ![t] =
                          [NoFrame EXCEPT !.op = "tx", !.present = body.present,
                                          !.tx = body.tx]]
    /\ Goto(t, "nt_load")
    /\ UNCHANGED <<ledger, mode, history, probe>>

\* self.current_transactions is read: the list object to append to
TxLoad(t) ==
    /\ pc[t] = "nt_load"
    /\ frame' = [frame EXCEPT ![t].lst = cur_list]
    /\ Goto(t, "nt_append")
    /\ UNCHANGED <<ledger, mode, history, probe>>

\* .append({...}) on that list object (lines 129-133)
TxAppend(t) ==
    LET obj == frame[t].lst
        tx == frame[t].tx
    IN  /\ pc[t] = "nt_append"
        /\ current_transactions' =
              ListAppend(current_transactions, cur_list, obj, tx)
        /\ chain' = [k \in DOMAIN chain |-> BlockListAppend(chain[k], obj, tx)]
        /\ frame' = [u \in Threads |->
                        [frame[u] EXCEPT !.block = BlockListAppend(@, obj, tx)]]
        /\ submitted' = Append(submitted, tx)
        /\ Goto(t, "nt_return")
        /\ UNCHANGED <<cur_list, lists_made, nodes, mode, minted, promised,
                       probe>>

\* return self.last_block['index'] + 1 (line 135); the handler of
\* /transactions/new answers 201, mine goes on to new_block
TxReturn(t) ==
    LET index == NextIndex(chain) IN
    /\ pc[t] = "nt_return"
    /\ promised' = promised \cup {<<frame[t].lst, index, frame[t].tx>>}
    /\ frame' = [frame EXCEPT ![t].ret = ToString(index),
                              ![t].status = IF frame[t].op = "tx" THEN 201 ELSE 0]
    /\ Goto(t, IF frame[t].op = "tx" THEN "respond" ELSE "nb_build")
    /\ UNCHANGED <<ledger, mode, submitted, minted, probe>>

(***************************************************************************)
(* GET /mine (lines 187-214) and new_block (lines 96-117).                 *)
(***************************************************************************)
\* lines 191-193: the last proof is read and the next proof searched
MineBegin(t) ==
    /\ MayBegin(t, "mine")
    /\ lists_made < MaxMints + 2
    /\ MineLastProof(chain) \in ProofDomain
    /\ frame' = [frame EXCEPT ![t] =
                    [NoFrame EXCEPT !.op = "mine", !.tx = RewardTx,
                                    !.proof = ProofOfWork(MineLastProof(chain))]]
    /\ Goto(t, "nt_load")
    /\ UNCHANGED <<ledger, mode, history, probe>>

\* proofs passed to new_block by a caller other than mine
DirectProofs == {0, 226}

\* blockchain.new_block(proof), called with no previous_hash
NewBlockBegin(t) ==
    /\ MayBegin(t, "block")
    /\ lists_made < MaxMints + 2
    /\ \E proof \in DirectProofs :
          frame' = [frame EXCEPT ![t] =
                       [NoFrame EXCEPT !.op = "block", !.proof = proof]]
    /\ Goto(t, "nb_build")
    /\ UNCHANGED <<ledger, mode, history, probe>>

\* lines 105-111: the block dict is built around the pending list object
BlockBuild(t) ==
    /\ pc[t] = "nb_build"
    /\ \E ts \in Times :
          frame' = [frame EXCEPT ![t].block =
                       NewBlockDict(chain, current_transactions, cur_list, ts,
                                    frame[t].proof, NoneHash)]
    /\ Goto(t, "nb_reset")
    /\ UNCHANGED <<ledger, mode, history, probe>>

\* line 114: self.current_transactions = []
BlockReset(t) ==
    /\ pc[t] = "nb_reset"
    /\ current_transactions' = <<>>
    /\ cur_list' = FreshList(lists_made)
    /\ lists_made' = lists_made + 1
    /\ Goto(t, "nb_append")
    /\ UNCHANGED <<chain, nodes, frame, mode, history, probe>>

\* lines 116-117 and 206-214: self.chain.append(block); the answer is 200
BlockAppend(t) ==
    /\ pc[t] = "nb_append"
    /\ chain' = Append(chain, frame[t].block)
    /\ minted' = submitted
    /\ submitted' = <<>>
    /\ frame' = [frame EXCEPT ![t].status = 200]
    /\ Goto(t, "respond")
    /\ UNCHANGED <<current_transactions, cur_list, lists_made, nodes, mode,
                   promised, probe>>

(***************************************************************************)
(* POST /nodes/register (lines 248-264) and register_node (lines 27-35).   *)
(***************************************************************************)
\* no 'nodes', or an empty list: 400
RegisterRejected(t) ==
    /\ MayBegin(t, "register")
    /\ frame' = [frame EXCEPT ![t] =
                    [NoFrame EXCEPT !.op = "register", !.status = 400]]
    /\ Goto(t, "respond")
    /\ UNCHANGED <<ledger, mode, history, probe>>

\* a list of one address: 201
RegisterNode(t) ==
    /\ MayBegin(t, "register")
    /\ \E address \in Addresses : nodes' = nodes \cup {Netloc(address)}
    /\ frame' = [frame EXCEPT ![t] =
                    [NoFrame EXCEPT !.op = "register", !.status = 201]]
    /\ Goto(t, "respond")
    /\ UNCHANGED <<chain, current_transactions, cur_list, lists_made, mode,
                   history, probe>>

(***************************************************************************)
(* GET /nodes/resolve (lines 267-277) and resolve_conflicts (lines 62-94). *)
(***************************************************************************)
\* every adjacent pair of blocks is hash-linked and proof-linked
Linked(c) ==
    \A k \in 2..Len(c) :
        /\ c[k].previous_hash = Hash(c[k - 1])
        /\ ValidProof(c[k - 1].proof, c[k].proof)

\* the peer's answer carries a chain longer than the local one and valid
Offers(r, local_len) ==
    r.kind = "ok" /\ r.length > local_len /\ Len(r.chain) > 0 /\ Linked(r.chain)

\* a faulty variant: length >= max_length
LongerOrEqual(length, max_length) == length >= max_length

\* line 85: length > max_length
Longer(length, max_length) == length > max_length

\* a faulty variant: self.chain = new_chain without the test of line 90
TruthyUntested(new_chain) == TRUE

\* line 90: if new_chain (None and the empty list are both false)
Truthy(new_chain) == new_chain # <<>>

\* lines 70-74: neighbours = self.nodes, new_chain = None,
\* max_length = len(self.chain)
ResolveBegin(t) ==
    /\ MayBegin(t, "resolve")
    /\ frame' = [frame EXCEPT ![t] =
                    [NoFrame EXCEPT !.op = "resolve", !.todo = nodes,
                                    !.max_length = Len(chain)]]
    /\ Goto(t, "rc_scan")
    /\ UNCHANGED <<ledger, mode, history, probe>>

\* lines 78-87: one pass of the loop body over the answer r of one peer
Examine(f, r) ==
    CASE r.kind = "unreachable" -> [f EXCEPT !.raised = "ConnectionError"]
      [] r.kind = "malformed" -> [f EXCEPT !.raised = "JSONDecodeError"]
      [] r.kind = "status" -> f
      [] r.kind = "ok" ->
            IF Longer(r.length, f.max_length)
            THEN LET v == ValidChain(r.chain) IN
                 IF v = "IndexError" THEN [f EXCEPT !.raised = v]
                 ELSE IF v = "True"
                      THEN [f EXCEPT !.max_length = r.length,
                                     !.new_chain = r.chain]
                      ELSE f
            ELSE f

\* an exception leaves resolve_conflicts and the handler: 500
Raise(f) == IF f.raised # "" THEN [f EXCEPT !.status = 500] ELSE f

\* line 77: the set iterator yields the next node, in no particular order
ResolveQuery(t) ==
    /\ pc[t] = "rc_scan"
    /\ \E node \in frame[t].todo : \E r \in Responses :
          LET f == [frame[t] EXCEPT !.todo = @ \ {node},
                                    !.offered = @ \/ Offers(r, Len(chain)),
                                    !.seen = IF Offers(r, Len(chain))
                                             THEN Append(@, <<r.length, r.chain>>)
                                             ELSE @]
              g == Raise(Examine(f, r))
          IN  /\ frame' = [frame EXCEPT ![t] = g]
              /\ Goto(t, IF g.raised # "" THEN "respond" ELSE "rc_scan")
    /\ UNCHANGED <<ledger, mode, history, probe>>

\* lines 90-92 and 271-277: a chain was found, it replaces ours; 200
ResolveReplace(t) ==
    /\ pc[t] = "rc_scan"
    /\ frame[t].todo = {}
    /\ Truthy(frame[t].new_chain)
    /\ chain' = frame[t].new_chain
    /\ frame' = [frame EXCEPT ![t].ret = "True", ![t].status = 200]
    /\ promised' = Kept(promised, cur_list, chain', frame')
    /\ Goto(t, "respond")
    /\ UNCHANGED <<current_transactions, cur_list, lists_made, nodes, mode,
                   submitted, minted, probe>>

\* lines 94 and 271-277: none was found; the handler then reads the name
\* response, which it never bound: 500
ResolveKeep(t) ==
    /\ pc[t] = "rc_scan"
    /\ frame[t].todo = {}
    /\ ~Truthy(frame[t].new_chain)
    /\ frame' = [frame EXCEPT ![t].ret = "False",
                              ![t].raised = "UnboundLocalError",
                              ![t].status = 500]
    /\ Goto(t, "respond")
    /\ UNCHANGED <<ledger, mode, history, probe>>

(***************************************************************************)
(* The answer of a handler goes out and the thread is free again.          *)
(***************************************************************************)
Respond(t) ==
    /\ pc[t] = "respond"
    /\ frame' = [frame EXCEPT ![t] = NoFrame]
    /\ promised' = Kept(promised, cur_list, chain, frame')
    /\ Goto(t, "idle")
    /\ UNCHANGED <<ledger, mode, submitted, minted, probe>>

(***************************************************************************)
(* A call of valid_chain on its own.                                       *)
(***************************************************************************)
CallValidChain ==
    /\ mode = "pure"
    /\ vc_result = ""
    /\ vc_result' = ValidChain(vc_chain)
    /\ UNCHANGED <<ledger, pc, frame, mode, history, vc_chain,
                   pw_last_proof, pw_proof, pw_result, vp_result>>

(***************************************************************************)
(* A call of proof_of_work and a call of valid_proof on their own.         *)
(***************************************************************************)
CallProofOfWork ==
    /\ mode = "pure"
    /\ pw_last_proof \in ProofDomain
    /\ pw_result = -1
    /\ pw_result' = ProofOfWork(pw_last_proof)
    /\ UNCHANGED <<ledger, pc, frame, mode, history, vc_chain, vc_result,
                   pw_last_proof, pw_proof, vp_result>>

CallValidProof ==
    /\ mode = "pure"
    /\ pw_last_proof \in ProofDomain
    /\ vp_result = ""
    /\ vp_result' = IF ValidProof(pw_last_proof, pw_proof) THEN "True" ELSE "False"
    /\ UNCHANGED <<ledger, pc, frame, mode, history, vc_chain, vc_result,
                   pw_last_proof, pw_proof, pw_result>>

(***************************************************************************)
(* Specifications.                                                         *)
(***************************************************************************)
\* the steps of /transactions/new and /mine
LedgerStep(t) ==
    \/ TxRejected(t)
    \/ TxAccepted(t)
    \/ TxLoad(t)
    \/ TxAppend(t)
    \/ TxReturn(t)
    \/ MineBegin(t)
    \/ BlockBuild(t)
    \/ BlockReset(t)
    \/ BlockAppend(t)
    \/ Respond(t)

\* the steps of /nodes/register and /nodes/resolve
PeerStep(t) ==
    \/ RegisterRejected(t)
    \/ RegisterNode(t)
    \/ ResolveBegin(t)
    \/ ResolveQuery(t)
    \/ ResolveReplace(t)
    \/ ResolveKeep(t)

Next == \E t \in Threads : LedgerStep(t) \/ PeerStep(t)

NextOverlap == \E t \in Threads : LedgerStep(t)

NoProofProbe ==
    pw_last_proof = 0 /\ pw_proof = 0 /\ pw_result = -1 /\ vp_result = ""

NoProbe == vc_chain = <<>> /\ vc_result = "" /\ NoProofProbe

\* the server handles one request at a time
Init == Construct /\ mode = "serial" /\ NoProbe

Spec == Init /\ [][Next]_vars

\* clients send /transactions/new and /mine requests only, and one of each may
\* be in service at a time, on two threads
InitOverlap == Construct /\ mode = "overlap" /\ NoProbe

SpecOverlap == InitOverlap /\ [][NextOverlap]_vars

\* the steps of /mine
MineStep(t) ==
    \/ MineBegin(t)
    \/ TxLoad(t)
    \/ TxAppend(t)
    \/ TxReturn(t)
    \/ BlockBuild(t)
    \/ BlockReset(t)
    \/ BlockAppend(t)
    \/ Respond(t)

NextMiners == \E t \in Threads : MineStep(t)

\* clients send /mine requests only, and two may be in service at a time
InitMiners == Construct /\ mode = "miners" /\ NoProbe

SpecMiners == InitMiners /\ [][NextMiners]_vars

\* the steps of new_transaction (through /transactions/new) and of new_block
DirectStep(t) ==
    \/ TxRejected(t)
    \/ TxAccepted(t)
    \/ TxLoad(t)
    \/ TxAppend(t)
    \/ TxReturn(t)
    \/ NewBlockBegin(t)
    \/ BlockBuild(t)
    \/ BlockReset(t)
    \/ BlockAppend(t)
    \/ Respond(t)

NextDirect == \E t \in Threads : DirectStep(t)

\* transactions are submitted and new_block is called, one call at a time
InitDirect == Construct /\ mode = "direct" /\ NoProbe

SpecDirect == InitDirect /\ [][NextDirect]_vars

\* valid_chain alone, on every candidate chain
InitValidChain ==
    /\ Construct
    /\ mode = "pure"
    /\ vc_chain \in CandidateChains
    /\ vc_result = ""
    /\ NoProofProbe

SpecValidChain == InitValidChain /\ [][CallValidChain]_vars

\* proof_of_work alone on every proof of ProofDomain, and valid_proof alone
\* on every pair of them
InitProofOfWork ==
    /\ Construct
    /\ mode = "pure"
    /\ vc_chain = <<>>
    /\ vc_result = ""
    /\ pw_last_proof \in ProofDomain
    /\ pw_proof \in ProofDomain
    /\ pw_result = -1
    /\ vp_result = ""

NextProofOfWork == CallProofOfWork \/ CallValidProof

SpecProofOfWork == InitProofOfWork /\ [][NextProofOfWork]_vars


(***************************************************************************)
(* Properties.                                                             *)
(***************************************************************************)
Resolved(t) == pc[t] = "respond" /\ frame[t].op = "resolve"

Mined(t) == pc[t] = "respond" /\ frame[t].op = "mine"

\* C1: in every state the server reaches by serving /transactions/new, /mine,
\* /nodes/register and /nodes/resolve one after the other, every block of the
\* local chain but the first carries as previous_hash the hash of the block
\* right before it.
C1_HashLinkage ==
    \A k \in 2..Len(chain) : chain[k].previous_hash = Hash(chain[k - 1])

\* a block minted here (its transactions are a list object of this ledger)
\* sits on top of two blocks adopted from a peer
C1_Witness ==
    /\ Len(chain) >= 3
    /\ chain[3].txobj # 0
    /\ chain[2].txobj = 0

\* C2: in every such state, every block of the local chain but the first
\* carries a proof that valid_proof accepts after the proof of the block
\* right before it.
C2_ProofContinuity ==
    \A k \in 2..Len(chain) : ValidProof(chain[k - 1].proof, chain[k].proof)

\* two blocks minted here one after the other
C2_Witness ==
    /\ Len(chain) >= 3
    /\ chain[Len(chain)].txobj # 0
    /\ chain[Len(chain) - 1].txobj # 0

\* C3: resolve_conflicts replaces the local chain and returns true exactly
\* when a registered peer answers with a chain longer than the local one that
\* passes valid_chain; in every other case it returns false and leaves the
\* local chain as it was.
C3_ReplacesExactlyWhenOffered ==
    [][\A t \in Threads :
          (pc[t] = "rc_scan" /\ pc'[t] = "respond") =>
              IF frame'[t].offered
              THEN frame'[t].ret = "True" /\ chain' = frame'[t].new_chain
              ELSE frame'[t].ret = "False" /\ chain' = chain]_vars

\* C4: when new_block has run after any number of new_transaction calls, the
\* pending buffer is empty and the transactions of the block just appended
\* are, in order, the transactions passed to new_transaction since the block
\* before it was created.
C4_BlockTakesPending ==
    \A t \in Threads :
        Mined(t) =>
            /\ current_transactions = <<>>
            /\ LastBlock(chain) = frame[t].block
            /\ LastBlock(chain).transactions = minted

\* a block was minted from two submitted transactions and the reward
C4_Witness ==
    \E t \in Threads : Mined(t) /\ Len(minted) = 3 /\ minted[3] = RewardTx

InPending(obj, tx) ==
    cur_list = obj /\ \E i \in DOMAIN current_transactions : current_transactions[i] = tx

InBlock(obj, tx) ==
    \E k \in DOMAIN chain :
        /\ chain[k].txobj = obj
        /\ \E i \in DOMAIN chain[k].transactions : chain[k].transactions[i] = tx

InBlocks(obj) == Cardinality({k \in DOMAIN chain : chain[k].txobj = obj})

\* C5: whichever way the steps of a /transactions/new request and of a /mine
\* request interleave, once the other request is over the transaction of an
\* accepted submission is in exactly one place: the transactions of one block
\* or the pending buffer, never both and never neither; and so is every
\* transaction submitted before, once both requests are over.
C5_LandsInOnePlace ==
    /\ \A t \in Threads :
          (/\ pc[t] = "respond"
           /\ frame[t].op = "tx"
           /\ frame[t].status = 201
           /\ \A u \in Threads \ {t} : Idle(u)) =>
              /\ InPending(frame[t].lst, frame[t].tx) # InBlock(frame[t].lst, frame[t].tx)
              /\ InBlocks(frame[t].lst) <= 1
    /\ (\A t \in Threads : Idle(t)) =>
          \A p \in promised :
              /\ InPending(p[1], p[3]) # InBlock(p[1], p[3])
              /\ InBlocks(p[1]) <= 1

\* a submission was appended to the list of a block after the reward of the
\* /mine request that built the block, and that request is over
C5_Witness ==
    \E t \in Threads :
        /\ pc[t] = "respond"
        /\ frame[t].op = "tx"
        /\ \A u \in Threads \ {t} : Idle(u)
        /\ \E k \in DOMAIN chain :
              LET txs == chain[k].transactions IN
              /\ chain[k].txobj = frame[t].lst
              /\ Len(txs) >= 2
              /\ txs[Len(txs)] = frame[t].tx
              /\ txs[Len(txs) - 1] = RewardTx

\* C6: a peer that cannot be reached or answers with a body that is no JSON
\* does not end resolve_conflicts: the call returns true or false, and true
\* with the chain replaced when another peer examined in the call offered a
\* longer valid chain.
C6_BadPeerIsSkipped ==
    \A t \in Threads :
        (Resolved(t) /\ frame[t].raised # "IndexError") =>
            /\ frame[t].raised \notin {"ConnectionError", "JSONDecodeError"}
            /\ frame[t].ret \in {"True", "False"}
            /\ frame[t].offered => frame[t].ret = "True" /\ chain = frame[t].new_chain

\* the same chain with the last block's index, timestamp and transactions
\* changed
Relabel(c) ==
    IF c = <<>> THEN c
    ELSE [c EXCEPT ![Len(c)] = [@ EXCEPT !.index = @ + 5,
                                         !.timestamp = @ + 1,
                                         !.transactions = <<PeerTx, PeerTx>>]]

\* the same chain with the previous_hash of block k changed
Tamper(c, k) == [c EXCEPT ![k] = [@ EXCEPT !.previous_hash = "sha256<tampered>"]]

\* C7: valid_chain(C) returns true if and only if every adjacent pair of
\* blocks of C is linked by previous_hash and by valid_proof; so it returns
\* true for the chains the ledger's own mining builds and false once the
\* previous_hash of one block after the first is changed; and its result does
\* not depend on the last block's index, timestamp or transactions.
C7_ValidChainIffLinked ==
    vc_result # "" =>
        /\ (vc_result = "True") <=> Linked(vc_chain)
        /\ vc_result \in {"True", "False"}
        /\ (\E n \in 1..(MaxPeerLen + 1) : vc_chain = HonestChain(n)) =>
              /\ vc_result = "True"
              /\ \A k \in 2..Len(vc_chain) : ValidChain(Tamper(vc_chain, k)) = "False"
        /\ ValidChain(Relabel(vc_chain)) = vc_result

\* C8: valid_chain returns true for a chain of no block or of one block.
C8_DegenerateChainIsValid ==
    (vc_result # "" /\ Len(vc_chain) <= 1) => vc_result = "True"

\* C9: a block that new_block appended and that holds a transaction has the
\* index that new_transaction returned for that transaction.
C9_ReturnedIndexIsBlockIndex ==
    \A p \in promised :
        \A k \in DOMAIN chain :
            (chain[k].txobj = p[1] /\ chain[k].txobj # 0) => chain[k].index = p[2]

\* C10: the block at position i (from 1) of the local chain has index i.
C10_IndexIsPosition ==
    \A i \in DOMAIN chain : chain[i].index = i

\* C11: the local chain holds at least one block in every state the server
\* reaches, whatever the peers answer.
C11_ChainNeverEmpty == Len(chain) >= 1

\* resolve_conflicts has replaced a chain that had grown by mining with a
\* peer's chain of one block
C11_Witness ==
    \E t \in Threads :
        Resolved(t) /\ frame[t].ret = "True" /\ Len(chain) = 1 /\ lists_made > 2


\* C12: a block that new_block has appended to the chain keeps its index,
\* transactions, proof and previous_hash through every later step of every
\* request, however the requests interleave.
C12_AppendedBlocksNeverChange ==
    [][\A k \in DOMAIN chain : \A j \in DOMAIN chain' :
          (chain[k].txobj # 0 /\ chain'[j].txobj = chain[k].txobj) =>
              chain'[j] = chain[k]]_vars


\* thread t is inside new_block
InNewBlock(t) == pc[t] \in {"nb_build", "nb_reset", "nb_append"}

\* C13: when two /mine requests run concurrently at most one of them is
\* inside new_block at a time, no two blocks of the chain are built on the
\* same predecessor, and the chain passes valid_chain with the indices
\* 1, 2, 3, ... in order.
C13_SingleWriter ==
    /\ Cardinality({t \in Threads : InNewBlock(t)}) <= 1
    /\ \A i, j \in DOMAIN chain :
          chain[i].previous_hash = chain[j].previous_hash => i = j
    /\ ValidChain(chain) = "True"
    /\ \A i \in DOMAIN chain : chain[i].index = i


\* C14: whatever resolve_conflicts returns, the handler of /nodes/resolve
\* answers normally: with status 200 and no exception, after a replacement
\* and also when nothing was replaced.
C14_ResolveHandlerAnswers ==
    \A t \in Threads :
        (Resolved(t) /\ frame[t].ret \in {"True", "False"}) =>
            frame[t].status = 200 /\ frame[t].raised = ""


C16_SmallestProof ==
    pw_result # -1 =>
        /\ ValidProof(pw_last_proof, pw_result)
        /\ \A q \in 0..(pw_result - 1) : ~ValidProof(pw_last_proof, q)
        /\ (vp_result # "" /\ pw_proof < pw_result) => vp_result = "False"
        /\ (vp_result # "" /\ pw_proof = pw_result) => vp_result = "True"

\* proof_of_work(100) gave 226, after 226 turns of its loop, and
\* valid_proof(100, 226) gave true
C16_Witness ==
    /\ pw_last_proof = 100
    /\ pw_result = 226
    /\ pw_proof = 226
    /\ vp_result = "True"


\* the genesis block, whatever its timestamp
IsGenesis(b) ==
    /\ b.index = 1
    /\ b.proof = 100
    /\ b.previous_hash = GenesisPreviousHash
    /\ b.transactions = <<>>

\* C17: the ledger starts with the genesis block alone (index 1, proof 100,
\* previous_hash the sentinel 1, no transactions), no pending transaction
\* and no peer; no later call creates another genesis block; and a
\* new_block call that follows one submitted transaction on the fresh
\* ledger yields block 2 with exactly that transaction and the hash of the
\* genesis block as previous_hash.
C17_FreshLedger ==
    /\ IsGenesis(chain[1])
    /\ \A k \in 2..Len(chain) :
          chain[k].index # 1 /\ chain[k].previous_hash # GenesisPreviousHash
    /\ (lists_made = 2 /\ submitted = <<>>) =>
          Len(chain) = 1 /\ current_transactions = <<>> /\ nodes = {}
    /\ (Len(chain) = 2 /\ Len(minted) = 1) =>
          /\ chain[2].index = 2
          /\ chain[2].transactions = minted
          /\ chain[2].previous_hash = Hash(chain[1])

\* new_block has returned block 2 after the one transaction from a to b
C17_Witness ==
    /\ Len(chain) = 2
    /\ minted = <<[sender |-> "a", recipient |-> "b", amount |-> 5]>>
    /\ \E t \in Threads : pc[t] = "respond" /\ frame[t].op = "block"


\* C18: the pending buffer changes in two ways only: the reset of new_block
\* empties it, which every new_block call does, and new_transaction adds one
\* transaction at its end; the steps of resolve_conflicts change neither the
\* pending buffer nor the peers, and those of register_node change neither
\* the chain nor the pending buffer.
C18_PendingClearedByNewBlockOnly ==
    [][/\ \A t \in Threads :
             (pc[t] = "nb_reset" /\ pc'[t] # pc[t]) => current_transactions' = <<>>
       /\ \A t \in Threads :
             (pc[t] = "nt_append" /\ pc'[t] # pc[t]) =>
                 current_transactions' = Append(current_transactions, frame[t].tx)
       /\ current_transactions' # current_transactions =>
             \E t \in Threads : pc[t] \in {"nb_reset", "nt_append"} /\ pc'[t] # pc[t]
       /\ \A t \in Threads :
             frame'[t].op = "resolve" =>
                 current_transactions' = current_transactions /\ nodes' = nodes
       /\ \A t \in Threads :
             frame'[t].op = "register" =>
                 current_transactions' = current_transactions /\ chain' = chain]_vars

\* resolve_conflicts has replaced the chain while two transactions were
\* pending
C18_Witness ==
    \E t \in Threads :
        Resolved(t) /\ frame[t].ret = "True" /\ Len(current_transactions) = 2


\* the greatest length among the answers seen
MaxSeen(seen) ==
    CHOOSE n \in {seen[i][1] : i \in DOMAIN seen} :
        \A i \in DOMAIN seen : seen[i][1] <= n

\* the positions of the answers that carry it
AtMax(seen) == {i \in DOMAIN seen : seen[i][1] = MaxSeen(seen)}

\* C19: when resolve_conflicts replaces the chain, the chain adopted comes
\* from a peer that reported the greatest length among the peers that
\* offered a longer valid chain, and among those of that length from the one
\* examined last.
C19_LastOfLongestAdopted ==
    \A t \in Threads :
        (Resolved(t) /\ frame[t].ret = "True") =>
            LET seen == frame[t].seen
                last == CHOOSE i \in AtMax(seen) : \A j \in AtMax(seen) : j <= i
            IN  chain = seen[last][2]

\* C19 amended: ... and among those of that length from the one examined
\* first.
C19_FirstOfLongestAdopted ==
    \A t \in Threads :
        (Resolved(t) /\ frame[t].ret = "True") =>
            LET seen == frame[t].seen
                first == CHOOSE i \in AtMax(seen) : \A j \in AtMax(seen) : i <= j
            IN  /\ seen # <<>>
                /\ chain = seen[first][2]
                /\ frame[t].max_length = MaxSeen(seen)

\* two peers offered different valid chains under the same length, and the
\* chain was replaced
C19_Witness ==
    \E t \in Threads :
        /\ Resolved(t)
        /\ frame[t].ret = "True"
        /\ Len(frame[t].seen) = 2
        /\ frame[t].seen[1][1] = frame[t].seen[2][1]
        /\ frame[t].seen[1][2] # frame[t].seen[2][2]


\* C20: no step makes the local chain shorter, and a resolve_conflicts that
\* returns true makes it longer, whatever 'length' the peers report.
C20_LengthNeverDecreases ==
    [][/\ Len(chain') >= Len(chain)
       /\ \A t \in Threads :
             (pc[t] = "rc_scan" /\ frame'[t].ret = "True") =>
                 Len(chain') > Len(chain)]_vars

=============================================================================
